---- MODULE Spec2Model ----
(***************************************************************************)
(* Model of the ZTF forced-photometry helper scripts.                      *)
(*                                                                         *)
(*   retrieve.py : retrieve() polls the job-status table, reconciles it    *)
(*                 against the positions of List_of_RA_Dec.txt, fans out   *)
(*                 one fetch_lightcurve task per kept row on a thread       *)
(*                 pool, collects the results in a dict and dumps it to     *)
(*                 results.json.                                            *)
(*   submit.py   : submit() walks the position lines and calls             *)
(*                 submit_post() per chunk of 1500 (batch mode) or per      *)
(*                 position; submit_post() ends the process with exit().    *)
(*                                                                         *)
(* Coordinates are integers in units of 1e-8 degree, so that the rounding  *)
(* to 7 decimals ("%.7f") is a rounding to a multiple of 10.               *)
(* The remote service is the environment: every HTTP answer is an input    *)
(* drawn from a small set.                                                  *)
(***************************************************************************)
EXTENDS Integers, Sequences, FiniteSets, TLC

\* ------------------------------------------------------------------ bounds
\* most lines in a positions file
MaxPos == 2
\* most rows in the status table the service answers with
MaxRows == 2
\* largest --num_proc / cpu_count() considered
MaxProc == 2

\* ------------------------------------------------------- program constants
\* while n_retry < 60 / if n_retry == 60
MaxRetry == 60
\* rem = i % 1500
ChunkSize == 1500

\* exit codes the code treats as bad (isin([63, 64, 65, 255]))
BadExitCodes == {63, 64, 65, 255}

\* ------------------------------------------------------------ input sets
None == "None"
\* the lines that occur in position files, as <<x[0], x[1]>> in raw
\* coordinates: 12 rounds to 10
RawLines == {<<12, 12>>, <<20, 20>>}
\* coordinates that occur in the service's status table
TableCoords == {10, 20}
\* exit codes that occur in the status table: a good one and a bad one
\* (the code reads an exit code only through isin([63, 64, 65, 255]))
ExitCodes == {0, 255}
\* light-curve file references that occur in the status table
LightcurveRefs == {None, "/lc.txt"}

\* float("%.7f" % float(x)) for x >= 0, no ties in RawLines
Round7(x) == ((x + 5) \div 10) * 10

SeqsUpTo(S, n) == UNION {[1..m -> S] : m \in 0..n}

\* the lines of a positions file: <<x[0], x[1]>> per line
PositionFiles == SeqsUpTo(RawLines, MaxPos)

\* for line in lines: ra.append(round(x[0])); dec.append(round(x[1]))
ParseRa(ls) == [n \in 1..Len(ls) |-> Round7(ls[n][1])]
ParseDec(ls) == [n \in 1..Len(ls) |-> Round7(ls[n][2])]

Rows == [ra : TableCoords, dec : TableCoords, exitcode : ExitCodes,
         lightcurve : LightcurveRefs]
StatusTables == SeqsUpTo(Rows, MaxRows)

Range(s) == {s[n] : n \in 1..Len(s)}

Min(a, b) == IF a < b THEN a ELSE b

\* ------------------------------------------------------------------ state
VARIABLES
    pc,           \* where retrieve() is: "idle", "query", "sleep", "classify",
                  \* "collect", "shutdown", "done", "fatal"
    lines,        \* the lines of List_of_RA_Dec.txt (raw coordinates)
    ra, dec,      \* retrieve's ra and dec: the arguments, until rebound
    num_proc,     \* retrieve's num_proc argument
    n_retry,      \* retrieve's n_retry
    df_result,    \* retrieve's df_result: None or the filtered status table
    max_workers,  \* the executor's max_workers
    futures,      \* per submitted task: "queued", "running", "ok",
                  \* "fetch_failed" (non-200 or no connection),
                  \* "missing_column"
    next,         \* index of the future the loop at line 172 waits for
    results,      \* the dict results, as the sequence of its items
    results_json, \* content of results.json: None until written
    error,        \* the exception that ended the run, or None
    n_queries,    \* status queries made so far by the poll loop (history)
    s_pc,         \* where submit() is: "idle", "loop", "returned", "exited"
    s_n,          \* number of position lines given to submit.py
    s_batch,      \* submit's batch flag
    s_i,          \* number of lines consumed so far
    s_ralist,     \* submit's ralist (positions named by line number)
    s_posts,      \* the requests made so far: positions and answer
    s_exit,       \* the process exit code, or None
    cpu_count,    \* what cpu_count() answered at line 168, 0 before
    lc_pc,        \* where fetch_lightcurve's normalisation of one table is
    lc_rows       \* the rows of that table (the columns the masks read)

retrieve_vars == <<pc, lines, ra, dec, num_proc, n_retry, df_result,
                   max_workers, futures, next, results, results_json, error,
                   n_queries, cpu_count>>
submit_vars == <<s_pc, s_n, s_batch, s_i, s_ralist, s_posts, s_exit>>
norm_vars == <<lc_pc, lc_rows>>
vars == <<retrieve_vars, submit_vars, norm_vars>>

RetrieveIdle ==
    /\ pc = "idle" /\ lines = <<>> /\ ra = <<>> /\ dec = <<>> /\ num_proc = 1
    /\ n_retry = 0 /\ df_result = None /\ max_workers = 0 /\ futures = <<>>
    /\ next = 1 /\ results = <<>> /\ results_json = None /\ error = None
    /\ n_queries = 0 /\ cpu_count = 0

SubmitIdle ==
    /\ s_pc = "idle" /\ s_n = 0 /\ s_batch = FALSE /\ s_i = 0
    /\ s_ralist = <<>> /\ s_posts = <<>> /\ s_exit = None

NormIdle == lc_pc = "idle" /\ lc_rows = <<>>

\* retrieve(ra, dec, batch, username, password, num_proc) is entered:
\* r = None; n_retry = 0; df_result = None
InitRetrieve ==
    /\ pc = "query"
    /\ lines \in PositionFiles
    /\ \E argfile \in PositionFiles :
          ra = ParseRa(argfile) /\ dec = ParseDec(argfile)
    /\ num_proc \in 1..MaxProc
    /\ n_retry = 0
    /\ df_result = None
    /\ max_workers = 0
    /\ futures = <<>>
    /\ next = 1
    /\ results = <<>>
    /\ results_json = None
    /\ error = None
    /\ n_queries = 0
    /\ cpu_count = 0

Init == InitRetrieve /\ SubmitIdle /\ NormIdle

\* ------------------------------------------------------------- poll loop
\* df_result[df_result['ra'].isin(ra) & df_result['dec'].isin(dec)]
KeepRow(r, ras, decs) == r.ra \in Range(ras) /\ r.dec \in Range(decs)
FilterRows(t, ras, decs) == SelectSeq(t, LAMBDA r : KeepRow(r, ras, decs))

\* variant: the loop is left only on an exact count
KeepPollingUnlessEqual(matched, requested) == matched # requested

\* if len(df_result) < len(ra): retry, else: break
KeepPolling(matched, requested) == matched < requested

\* variant: one more turn of the loop
LoopRunsInclusive(n) == n <= MaxRetry

\* while n_retry < 60
LoopRuns(n) == n < MaxRetry

\* requests.get raises (no connection): nothing catches it
QueryRaises ==
    /\ pc = "query" /\ LoopRuns(n_retry)
    /\ n_queries' = n_queries + 1
    /\ pc' = "fatal" /\ error' = "transport"
    /\ UNCHANGED <<lines, ra, dec, num_proc, n_retry, df_result, max_workers,
                   futures, next, results, results_json, submit_vars, cpu_count,
                   norm_vars>>

\* variant: a non-200 answer is retried at once, without the sleep
QueryNon200NoSleep ==
    /\ pc = "query" /\ LoopRuns(n_retry)
    /\ n_queries' = n_queries + 1
    /\ n_retry' = n_retry + 1
    /\ pc' = "query"
    /\ UNCHANGED <<lines, ra, dec, num_proc, df_result, max_workers,
                   futures, next, results, results_json, error, submit_vars,
                   cpu_count, norm_vars>>

\* r.status_code != 200: print, time.sleep(60), n_retry += 1
QueryNon200 ==
    /\ pc = "query" /\ LoopRuns(n_retry)
    /\ n_queries' = n_queries + 1
    /\ pc' = "sleep"
    /\ UNCHANGED <<lines, ra, dec, num_proc, n_retry, df_result, max_workers,
                   futures, next, results, results_json, error, submit_vars, cpu_count,
                   norm_vars>>

\* 200 with a body pd.read_html finds no table in (or a table without the
\* ra/dec columns): ValueError / KeyError, nothing catches it
QueryUnparseable ==
    /\ pc = "query" /\ LoopRuns(n_retry)
    /\ n_queries' = n_queries + 1
    /\ pc' = "fatal" /\ error' = "parse"
    /\ UNCHANGED <<lines, ra, dec, num_proc, n_retry, df_result, max_workers,
                   futures, next, results, results_json, submit_vars, cpu_count,
                   norm_vars>>

\* 200 with the status table t: re-read List_of_RA_Dec.txt into ra, dec,
\* filter, then retry or break
QueryTable ==
    /\ pc = "query" /\ LoopRuns(n_retry)
    /\ \E t \in StatusTables :
          /\ ra' = ParseRa(lines)
          /\ dec' = ParseDec(lines)
          /\ df_result' = FilterRows(t, ra', dec')
          /\ IF KeepPolling(Len(df_result'), Len(ra'))
                THEN /\ pc' = "sleep"
                     /\ n_queries' = n_queries + 1
                     /\ UNCHANGED n_retry
                ELSE \* break, and n_retry == 60 is false at line 144;
                     \* neither counter is read again: both are dropped
                     /\ pc' = "classify"
                     /\ n_queries' = 0
                     /\ n_retry' = 0
    /\ UNCHANGED <<lines, num_proc, max_workers, futures, next,
                   results, results_json, error, submit_vars, cpu_count,
                   norm_vars>>

\* time.sleep(60); n_retry += 1
Sleep ==
    /\ pc = "sleep"
    /\ n_retry' = n_retry + 1
    /\ pc' = "query"
    /\ UNCHANGED <<lines, ra, dec, num_proc, df_result, max_workers, futures,
                   next, results, results_json, error, n_queries,
                   submit_vars, cpu_count,
                   norm_vars>>

\* the loop condition fails; if n_retry == 60: raise Exception
PollTimeout ==
    /\ pc = "query" /\ ~LoopRuns(n_retry)
    /\ n_retry = MaxRetry
    /\ pc' = "fatal" /\ error' = "timeout"
    /\ UNCHANGED <<lines, ra, dec, num_proc, n_retry, df_result, max_workers,
                   futures, next, results, results_json, n_queries,
                   submit_vars, cpu_count,
                   norm_vars>>

\* ------------------------------------------------- classification, fan-out
IsBad(r) == r.exitcode \in BadExitCodes

\* good_df_result: df_result without the bad exit codes (line 149) and
\* without the rows that have no lightcurve (line 162)
GoodRows(t) == SelectSeq(t, LAMBDA r : ~IsBad(r) /\ r.lightcurve # None)

\* bad_df_result (line 154)
BadRows(t) == SelectSeq(t, LAMBDA r : IsBad(r))

\* the rows the loop at line 170 submits a fetch_lightcurve task for
SubmittedRows(t) == t

\* variant: the pool is not capped by the number of good rows
MaxWorkersUncapped(np, cpus, good) == Min(np, cpus)

\* min(min(num_proc, cpu_count()), len(good_df_result))
MaxWorkers(np, cpus, good) == Min(Min(np, cpus), Len(good))

\* lines 151-153 and 163-165: raise Exception("Lightcurves not created
\* successfully for any of the positions")
NothingToFetch ==
    /\ pc = "classify"
    /\ Len(df_result) = 0 \/ Len(GoodRows(df_result)) = 0
    /\ pc' = "fatal"
    /\ error' = IF Len(df_result) = 0 THEN "no_rows" ELSE "no_good_rows"
    /\ UNCHANGED <<lines, ra, dec, num_proc, n_retry, df_result, max_workers,
                   futures, next, results, results_json, n_queries,
                   submit_vars, cpu_count,
                   norm_vars>>

\* lines 167-171: results = {}; the executor is created; one task is
\* submitted per row of SubmittedRows
Dispatch ==
    /\ pc = "classify"
    /\ Len(df_result) # 0 /\ Len(GoodRows(df_result)) # 0
    /\ cpu_count' \in 1..MaxProc
    /\ max_workers' = MaxWorkers(num_proc, cpu_count', GoodRows(df_result))
    /\ futures' = [n \in 1..Len(SubmittedRows(df_result)) |-> "queued"]
    /\ results' = <<>>
    /\ next' = 1
    /\ pc' = "collect"
    /\ UNCHANGED <<lines, ra, dec, num_proc, n_retry, df_result,
                   results_json, error, n_queries, submit_vars, norm_vars>>

\* ------------------------------------------------------------ the workers
Final == {"ok", "fetch_failed", "missing_column"}
Running == {n \in 1..Len(futures) : futures[n] = "running"}
Queued == {n \in 1..Len(futures) : futures[n] = "queued"}

\* a worker thread takes the oldest queued work item
StartTask(n) ==
    /\ pc \in {"collect", "shutdown"}
    /\ n \in Queued
    /\ \A m \in Queued : n <= m
    /\ Cardinality(Running) < max_workers
    /\ futures' = [futures EXCEPT ![n] = "running"]
    /\ UNCHANGED <<pc, lines, ra, dec, num_proc, n_retry, df_result,
                   max_workers, next, results, results_json, error,
                   n_queries, submit_vars, cpu_count,
                   norm_vars>>

\* what fetch_lightcurve(row) can end in. Without a file reference the URL
\* is the host name followed by "None", which names no host: requests.get
\* raises. Otherwise: the dict of line 95 ("ok"); the exception of line 38
\* on a non-200 answer, or one of requests.get or ascii.read
\* ("fetch_failed"); the ValueError of line 54 ("missing_column")
FetchOutcomes(row) ==
    IF row.lightcurve = None THEN {"fetch_failed"}
    ELSE {"ok", "fetch_failed", "missing_column"}

FinishTask(n) ==
    /\ pc \in {"collect", "shutdown"}
    /\ n \in Running
    /\ \E o \in FetchOutcomes(SubmittedRows(df_result)[n]) :
          futures' = [futures EXCEPT ![n] = o]
    /\ UNCHANGED <<pc, lines, ra, dec, num_proc, n_retry, df_result,
                   max_workers, next, results, results_json, error,
                   n_queries, submit_vars, cpu_count,
                   norm_vars>>

\* --------------------------------------------------------------- collection
\* f"({row['ra']}, {row['dec']})"
Key(row) == <<"(", row.ra, ", ", row.dec, ")">>

\* the dict fetch_lightcurve returns for the row's file
Data(row) == [lightcurve_of |-> row.lightcurve]

HasKey(d, k) == \E n \in 1..Len(d) : d[n].key = k

\* d[k] = v on a dict: a present key keeps its place, a new one goes last
DictSet(d, k, v) ==
    IF HasKey(d, k)
    THEN [n \in 1..Len(d) |-> IF d[n].key = k THEN [key |-> k, value |-> v]
                                               ELSE d[n]]
    ELSE Append(d, [key |-> k, value |-> v])

\* the rows the loop at line 172 pairs the futures with
CollectedRows(t) == t

\* variant: results are taken as the tasks complete, not in submission
\* order
CollectAsCompleted ==
    /\ pc = "collect"
    /\ \E n \in 1..Len(futures) :
          /\ futures[n] = "ok"
          /\ futures' = [futures EXCEPT ![n] = "collected"]
          /\ results' = DictSet(results, Key(CollectedRows(df_result)[n]),
                                Data(SubmittedRows(df_result)[n]))
    /\ next' = next + 1
    /\ UNCHANGED <<pc, lines, ra, dec, num_proc, n_retry, df_result,
                   max_workers, results_json, error, n_queries,
                   submit_vars, cpu_count,
                   norm_vars>>

\* line 173-174: future.result() of a finished, successful task
CollectOk ==
    /\ pc = "collect"
    /\ next <= Len(futures)
    /\ futures[next] = "ok"
    /\ results' = DictSet(results, Key(CollectedRows(df_result)[next]),
                          Data(SubmittedRows(df_result)[next]))
    /\ next' = next + 1
    /\ UNCHANGED <<pc, lines, ra, dec, num_proc, n_retry, df_result,
                   max_workers, futures, results_json, error, n_queries,
                   submit_vars, cpu_count,
                   norm_vars>>

\* variant: a failed task is skipped instead of ending the run
CollectSkipsFailure ==
    /\ pc = "collect"
    /\ next <= Len(futures)
    /\ futures[next] \in Final \ {"ok"}
    /\ next' = next + 1
    /\ UNCHANGED <<pc, lines, ra, dec, num_proc, n_retry, df_result,
                   max_workers, futures, results, results_json, error,
                   n_queries, submit_vars, cpu_count,
                   norm_vars>>

\* line 173: future.result() re-raises the task's exception; the with
\* block is left and the executor shut down with wait=True
CollectRaises ==
    /\ pc = "collect"
    /\ next <= Len(futures)
    /\ futures[next] \in Final \ {"ok"}
    /\ error' = futures[next]
    /\ pc' = "shutdown"
    /\ UNCHANGED <<lines, ra, dec, num_proc, n_retry, df_result,
                   max_workers, futures, next, results, results_json,
                   n_queries, submit_vars, cpu_count,
                   norm_vars>>

\* shutdown(wait=True) returns once every submitted task has run; the
\* exception leaves retrieve
ShutdownDone ==
    /\ pc = "shutdown"
    /\ \A n \in 1..Len(futures) : futures[n] \in Final
    /\ pc' = "fatal"
    /\ UNCHANGED <<lines, ra, dec, num_proc, n_retry, df_result,
                   max_workers, futures, next, results, results_json, error,
                   n_queries, submit_vars, cpu_count,
                   norm_vars>>

\* lines 177-179: every future collected; json.dump(results); return
Return ==
    /\ pc = "collect"
    /\ next > Len(futures)
    /\ results_json' = results
    /\ pc' = "done"
    /\ UNCHANGED <<lines, ra, dec, num_proc, n_retry, df_result,
                   max_workers, futures, next, results, error, n_queries,
                   submit_vars, cpu_count,
                   norm_vars>>

NextRetrieve ==
    \/ QueryRaises
    \/ QueryNon200
    \/ QueryUnparseable
    \/ QueryTable
    \/ Sleep
    \/ PollTimeout
    \/ NothingToFetch
    \/ Dispatch
    \/ \E n \in 1..MaxRows : StartTask(n)
    \/ \E n \in 1..MaxRows : FinishTask(n)
    \/ CollectOk
    \/ CollectRaises
    \/ ShutdownDone
    \/ Return

Spec == Init /\ [][NextRetrieve]_vars

\* ---------------------------------------------------------------- submit.py
\* numbers of position lines given to submit.py
SubmitSizes == {0, 1, 2, 1499, 1500, 1501, 3000, 3400}
\* status codes the submission endpoints answer with
SubmitStatuses == {200, 500}

\* submit(ra, dec, jdstart, jdend, batch, username, password) is entered;
\* line n of the input is named by its number n
InitSubmit ==
    /\ s_pc = "loop"
    /\ s_n \in SubmitSizes
    /\ s_batch \in BOOLEAN
    /\ s_i = 0
    /\ s_ralist = <<>>
    /\ s_posts = <<>>
    /\ s_exit = None

InitS == RetrieveIdle /\ InitSubmit /\ NormIdle

\* rem = i % 1500; if rem == 0
ChunkFull(i) == i % ChunkSize = 0

\* submit_post(ra_list, ...): one request with the positions, then
\* exit(0) on a 200 and exit(1) otherwise (lines 38-43): it never returns
SubmitPost(positions, status) ==
    /\ s_posts' = Append(s_posts, [positions |-> positions, status |-> status])
    /\ s_exit' = IF status = 200 THEN 0 ELSE 1
    /\ s_pc' = "exited"

\* lines 53-65, rem != 0: the line is appended to ralist/declist
BatchAppend ==
    /\ s_pc = "loop" /\ s_batch /\ s_i < s_n
    /\ ~ChunkFull(s_i + 1)
    /\ s_i' = s_i + 1
    /\ s_ralist' = Append(s_ralist, s_i + 1)
    /\ UNCHANGED <<s_pc, s_n, s_batch, s_posts, s_exit, retrieve_vars, norm_vars>>

\* lines 53-68, rem == 0: the line is appended and the chunk submitted
BatchChunk ==
    /\ s_pc = "loop" /\ s_batch /\ s_i < s_n
    /\ ChunkFull(s_i + 1)
    /\ s_i' = s_i + 1
    /\ s_ralist' = Append(s_ralist, s_i + 1)
    /\ \E status \in SubmitStatuses : SubmitPost(s_ralist', status)
    /\ UNCHANGED <<s_n, s_batch, retrieve_vars, norm_vars>>

\* lines 72-73: the lines left over after the loop are submitted
BatchTail ==
    /\ s_pc = "loop" /\ s_batch /\ s_i = s_n
    /\ Len(s_ralist) > 0
    /\ \E status \in SubmitStatuses : SubmitPost(s_ralist, status)
    /\ UNCHANGED <<s_n, s_batch, s_i, s_ralist, retrieve_vars, norm_vars>>

\* lines 75-78: one request per position
SingleSubmit ==
    /\ s_pc = "loop" /\ ~s_batch /\ s_i < s_n
    /\ s_i' = s_i + 1
    /\ s_ralist' = <<s_i + 1>>
    /\ \E status \in SubmitStatuses : SubmitPost(s_ralist', status)
    /\ UNCHANGED <<s_n, s_batch, retrieve_vars, norm_vars>>

\* submit returns: nothing (left) to submit
SubmitReturn ==
    /\ s_pc = "loop" /\ s_i = s_n
    /\ s_batch => Len(s_ralist) = 0
    /\ s_pc' = "returned"
    /\ UNCHANGED <<s_n, s_batch, s_i, s_ralist, s_posts, s_exit,
                   retrieve_vars, norm_vars>>

NextSubmit ==
    \/ BatchAppend
    \/ BatchChunk
    \/ BatchTail
    \/ SingleSubmit
    \/ SubmitReturn

SpecSubmit == InitS /\ [][NextSubmit]_vars

\* ------------------------------------------- fetch_lightcurve: the masks
\* Lines 59-82 on the columns forcediffimflux and forcediffimfluxunc of one
\* fetched table. A cell is a triple: a finite number Num(x) (an integer
\* here), NaN, Inf, MInf, the text Null ("null"), or NoneCell (None). mag and
\* magerr are kept symbolically: a finite result is tagged with what it was
\* computed from.
Num(x) == <<"num", x, 0>>
NaN == <<"nan", 0, 0>>
Inf == <<"inf", 0, 0>>
MInf == <<"-inf", 0, 0>>
Null == <<"null", 0, 0>>
NoneCell == <<"None", 0, 0>>
\* most rows in a fetched light-curve table
MaxLcRows == 2
\* cells that occur in the forcediffimflux column
FluxCells == {Null, NaN, Num(-30), Num(0), Num(10), Num(100)}
\* cells that occur in the forcediffimfluxunc column
UncCells == {Null, Num(0), Num(4), Num(10)}

IsNumber(x) == x[1] = "num"

\* df.replace({"null": np.nan}) on one cell
ReplaceNull(x) == IF x = Null THEN NaN ELSE x

\* zpdiff - 2.5 * np.log10(flux): log10 is NaN below 0 and -inf at 0
Mag(flux) ==
    IF ~IsNumber(flux) THEN NaN
    ELSE IF flux[2] < 0 THEN NaN
    ELSE IF flux[2] = 0 THEN Inf
    ELSE <<"zpdiff - 2.5 log10", flux[2], 0>>

\* 1.0857 * unc / flux, with IEEE division
MagErr(flux, unc) ==
    IF ~IsNumber(flux) \/ ~IsNumber(unc) THEN NaN
    ELSE IF flux[2] = 0
         THEN (IF unc[2] = 0 THEN NaN ELSE IF unc[2] > 0 THEN Inf ELSE MInf)
    ELSE <<"1.0857 * unc / flux", unc[2], flux[2]>>

\* flux / unc < 3.0, with IEEE division and comparison: NaN compares
\* false, x/0 is +-inf or NaN
SnrMask(flux, unc) ==
    IF ~IsNumber(flux) \/ ~IsNumber(unc) THEN FALSE
    ELSE IF unc[2] = 0 THEN flux[2] < 0
    ELSE IF unc[2] > 0 THEN flux[2] < 3 * unc[2]
    ELSE flux[2] > 3 * unc[2]

\* forcediffimfluxunc == 0.0
ZeroMask(unc) == unc = Num(0)

\* np.isnan(forcediffimflux)
NanMask(flux) == flux = NaN

\* df.loc[mask, 'mag'] = None; df.loc[mask, 'magerr'] = None: NaN in a
\* float column
MaskRow(r, masked) ==
    IF masked THEN [r EXCEPT !.mag = NaN, !.magerr = NaN] ELSE r

\* df.replace({np.nan: None}) on one cell
ReplaceNaN(x) == IF x = NaN THEN NoneCell ELSE x

LcRows == [flux_raw : FluxCells, unc_raw : UncCells]

\* the table as ascii.read(...).to_pandas() gives it
InitNorm ==
    /\ lc_pc = "read"
    /\ \E t \in SeqsUpTo(LcRows, MaxLcRows) :
          lc_rows = [n \in 1..Len(t) |->
                        [flux_raw |-> t[n].flux_raw, unc_raw |-> t[n].unc_raw,
                         flux |-> t[n].flux_raw, unc |-> t[n].unc_raw,
                         mag |-> NoneCell, magerr |-> NoneCell]]

InitN == RetrieveIdle /\ SubmitIdle /\ InitNorm

\* a column with a "null" cell was read as text
TextColumns ==
    \E n \in 1..Len(lc_rows) :
        lc_rows[n].flux_raw = Null \/ lc_rows[n].unc_raw = Null

\* lines 59-60
NormReplaceNull ==
    /\ lc_pc = "read"
    /\ lc_rows' = [n \in 1..Len(lc_rows) |->
                      [lc_rows[n] EXCEPT !.flux = ReplaceNull(@),
                                         !.unc = ReplaceNull(@)]]
    /\ lc_pc' = "replaced"
    /\ UNCHANGED <<retrieve_vars, submit_vars>>

\* lines 66-67 on a column that is still text after the replace: np.log10
\* raises TypeError. Whether such a column is text or numeric here is up to
\* the astropy and pandas versions: both outcomes are modelled.
NormComputeRaises ==
    /\ lc_pc = "replaced"
    /\ TextColumns
    /\ lc_pc' = "raised"
    /\ UNCHANGED <<lc_rows, retrieve_vars, submit_vars>>

\* lines 66-67
NormCompute ==
    /\ lc_pc = "replaced"
    /\ lc_rows' = [n \in 1..Len(lc_rows) |->
                      [lc_rows[n] EXCEPT
                          !.mag = Mag(lc_rows[n].flux),
                          !.magerr = MagErr(lc_rows[n].flux, lc_rows[n].unc)]]
    /\ lc_pc' = "computed"
    /\ UNCHANGED <<retrieve_vars, submit_vars>>

\* lines 69-72
NormMaskSnr ==
    /\ lc_pc = "computed"
    /\ lc_rows' = [n \in 1..Len(lc_rows) |->
                      MaskRow(lc_rows[n], SnrMask(lc_rows[n].flux, lc_rows[n].unc))]
    /\ lc_pc' = "snr_masked"
    /\ UNCHANGED <<retrieve_vars, submit_vars>>

\* variant: the mask of the zero uncertainties is left out
NormMaskZeroSkipped ==
    /\ lc_pc = "snr_masked"
    /\ lc_pc' = "zero_masked"
    /\ UNCHANGED <<lc_rows, retrieve_vars, submit_vars>>

\* lines 74-76
NormMaskZero ==
    /\ lc_pc = "snr_masked"
    /\ lc_rows' = [n \in 1..Len(lc_rows) |->
                      MaskRow(lc_rows[n], ZeroMask(lc_rows[n].unc))]
    /\ lc_pc' = "zero_masked"
    /\ UNCHANGED <<retrieve_vars, submit_vars>>

\* lines 78-80
NormMaskNan ==
    /\ lc_pc = "zero_masked"
    /\ lc_rows' = [n \in 1..Len(lc_rows) |->
                      MaskRow(lc_rows[n], NanMask(lc_rows[n].flux))]
    /\ lc_pc' = "nan_masked"
    /\ UNCHANGED <<retrieve_vars, submit_vars>>

\* lines 82-96: NaN becomes None; the dict of columns is returned
NormFinish ==
    /\ lc_pc = "nan_masked"
    /\ lc_rows' = [n \in 1..Len(lc_rows) |->
                      [lc_rows[n] EXCEPT !.mag = ReplaceNaN(@),
                                         !.magerr = ReplaceNaN(@)]]
    /\ lc_pc' = "done"
    /\ UNCHANGED <<retrieve_vars, submit_vars>>

NextNorm ==
    \/ NormReplaceNull
    \/ NormComputeRaises
    \/ NormCompute
    \/ NormMaskSnr
    \/ NormMaskZero
    \/ NormMaskNan
    \/ NormFinish

SpecNorm == InitN /\ [][NextNorm]_vars

\* ------------------------------------------------------------------ claims
Failed == {n \in 1..Len(futures) : futures[n] \in Final \ {"ok"}}
Keys(d) == {d[n].key : n \in 1..Len(d)}
\* the string form of the n-th position of ra, dec
PosKey(n) == Key([ra |-> ra[n], dec |-> dec[n]])
RequestedKeys == {PosKey(n) : n \in 1..Len(ra)}
\* place of the first position of ra, dec with string form k
FirstRequest(k) ==
    CHOOSE n \in 1..Len(ra) :
        PosKey(n) = k /\ \A m \in 1..(n - 1) : PosKey(m) # k

\* C1: as long as every status query has answered non-200 or with a table
\* that filters to fewer rows than there are positions (the run is still
\* in the poll loop, or has left it by the ceiling), at most 60 queries
\* have been made, no task was dispatched and nothing was written; the
\* 60th such answer is followed by no further query; and the run that ends
\* by the ceiling has made exactly 60 queries, is fatal, and has neither
\* results nor results.json.
C1_PollCeiling ==
    /\ pc \in {"query", "sleep"} =>
          /\ n_queries <= MaxRetry
          /\ n_queries = n_retry + (IF pc = "sleep" THEN 1 ELSE 0)
          /\ futures = <<>> /\ results = <<>> /\ results_json = None
    /\ (pc = "query" /\ n_queries = MaxRetry) =>
          ~(ENABLED QueryNon200 \/ ENABLED QueryTable)
    /\ error = "timeout" =>
          /\ pc = "fatal"
          /\ n_queries = MaxRetry
          /\ futures = <<>> /\ results = <<>> /\ results_json = None

C1_Witness ==
    pc = "fatal" /\ error = "timeout" /\ n_queries = MaxRetry
    /\ df_result # None /\ Len(df_result) < Len(ra)

\* C2: once tasks are dispatched, there is a task for a row exactly if
\* the row's exit code is not one of 63, 64, 65, 255.
C2_FetchIffGoodExitCode ==
    futures # <<>> =>
        /\ \A n \in 1..Len(futures) : ~IsBad(SubmittedRows(df_result)[n])
        /\ Len(futures) = Len(SelectSeq(df_result, LAMBDA r : ~IsBad(r)))

\* C3: a row with a bad exit code never makes the run fail: the run does
\* not end in "not created successfully for any position" when rows were
\* matched, and a returned mapping holds null under the key of every row
\* with a bad exit code.
C3_BadRowsBecomeNull ==
    /\ ~(pc = "fatal" /\ error = "no_good_rows"
         /\ \A n \in 1..Len(df_result) : IsBad(df_result[n]))
    /\ pc = "done" =>
          \A n \in 1..Len(df_result) :
              IsBad(df_result[n]) =>
                  \E m \in 1..Len(results) :
                      /\ results[m].key = Key(df_result[n])
                      /\ results[m].value = None

\* C4 as stated: the loop is left exactly if the number of kept rows equals
\* the number of positions, and polling goes on whenever it differs.
C4_StopIffEqual ==
    /\ pc = "classify" => Len(df_result) = Len(ra)
    /\ (pc = "sleep" /\ df_result # None) => Len(df_result) # Len(ra)

\* C4 amended: the loop is left exactly if the number of kept rows is at
\* least the number of positions (0 included); polling goes on only when
\* it is lower.
C4_StopIffAtLeast ==
    /\ pc = "classify" => Len(df_result) >= Len(ra)
    /\ (pc = "sleep" /\ df_result # None) => Len(df_result) < Len(ra)

C4_Witness ==
    pc = "classify" /\ Len(ra) > 0 /\ Len(df_result) > Len(ra)

\* C5: every row the filter keeps has the (ra, dec) pair of one position.
C5_KeptRowsMatchAPosition ==
    df_result # None =>
        \A n \in 1..Len(df_result) :
            \E m \in 1..Len(ra) :
                df_result[n].ra = ra[m] /\ df_result[n].dec = dec[m]

\* C6: the keys of a returned mapping are exactly the string forms of the
\* positions.
C6_KeysAreThePositions ==
    pc = "done" => Keys(results) = RequestedKeys

\* C7: once a dispatched task has failed, retrieve never returns and
\* results.json is never written; the run that ends on a task's failure
\* is fatal with that failure as its error.
C7_FetchFailureIsFatal ==
    /\ Failed # {} => pc # "done" /\ results_json = None
    /\ error \in Final \ {"ok"} =>
          Failed # {} /\ pc \in {"shutdown", "fatal"} /\ results_json = None

C7_Witness ==
    /\ pc = "fatal" /\ error = "missing_column"
    /\ \E n \in 1..Len(futures) : futures[n] = "ok"
    /\ results # <<>>
    /\ results_json = None

\* C9: no failed status query ends the run before the ceiling: a run that
\* ends while polling has n_retry = 60.
C9_FailedQueriesAreRetried ==
    (pc = "fatal" /\ error \in {"transport", "parse", "timeout"}) =>
        n_retry = MaxRetry

\* C10 as stated: the entries of the returned mapping follow the order of
\* the positions in the request.
C10_RequestOrder ==
    pc = "done" =>
        \A m1, m2 \in 1..Len(results_json) :
            (/\ m1 < m2
             /\ results_json[m1].key \in RequestedKeys
             /\ results_json[m2].key \in RequestedKeys)
            => FirstRequest(results_json[m1].key)
                   < FirstRequest(results_json[m2].key)

RECURSIVE KeysInOrder(_)
\* the distinct keys of the rows of t, each at its first occurrence
KeysInOrder(t) ==
    IF t = <<>> THEN <<>>
    ELSE LET front == KeysInOrder(SubSeq(t, 1, Len(t) - 1))
             k == Key(t[Len(t)])
         IN IF k \in Range(front) THEN front ELSE Append(front, k)

\* C10 amended: the entries of the mapping, returned and written, follow
\* the order of the rows of the filtered status table (a position with
\* several rows stands where its first row stands), whatever the order in
\* which the tasks complete; while collecting, the mapping holds the rows
\* collected so far in that order.
C10_StatusTableOrder ==
    /\ pc \in {"collect", "shutdown"} =>
          [m \in 1..Len(results) |-> results[m].key]
              = KeysInOrder(SubSeq(df_result, 1, next - 1))
    /\ pc = "done" =>
          /\ results_json = results
          /\ [m \in 1..Len(results) |-> results[m].key]
                 = KeysInOrder(df_result)

C10_Witness ==
    /\ pc = "done" /\ Len(ra) = 2 /\ Len(results_json) = 2
    /\ results_json[1].key = PosKey(2)
    /\ results_json[2].key = PosKey(1)
    /\ PosKey(1) # PosKey(2)

\* C8: in batch mode, when every request was answered 200 and submit.py
\* has ended, the requests are the chunks of 1500 of the input in order:
\* ceil(N/1500) of them, none longer than 1500, together every line once.
C8_BatchChunks ==
    (/\ s_pc \in {"returned", "exited"}
     /\ s_batch
     /\ \A n \in 1..Len(s_posts) : s_posts[n].status = 200)
    => /\ Len(s_posts) = (s_n + ChunkSize - 1) \div ChunkSize
       /\ \A n \in 1..Len(s_posts) :
             /\ Len(s_posts[n].positions) <= ChunkSize
             /\ s_posts[n].positions =
                   [j \in 1..Len(s_posts[n].positions)
                       |-> (n - 1) * ChunkSize + j]
       /\ \A line \in 1..s_n :
             \E n \in 1..Len(s_posts) :
                 line \in Range(s_posts[n].positions)

\* the rows whose exit code is none of 63, 64, 65, 255
EligibleRows == SelectSeq(df_result, LAMBDA r : ~IsBad(r))

\* C11: at no time do more tasks run than min(num_proc, cpu_count(),
\* number of rows with a good exit code); the pool is as large as the
\* number of good rows that have a file reference, which is no larger.
C11_RunningWithinBound ==
    futures # <<>> =>
        /\ Cardinality(Running)
              <= Min(Min(num_proc, cpu_count), Len(EligibleRows))
        /\ Cardinality(Running) <= max_workers
        /\ max_workers <= Len(GoodRows(df_result))
        /\ Len(GoodRows(df_result)) <= Len(EligibleRows)

C11_Witness ==
    /\ num_proc = 2 /\ cpu_count = 2
    /\ Len(futures) = 2 /\ Len(EligibleRows) = 1
    /\ Cardinality(Running) = 1 /\ Queued # {}

\* C12: once a task has failed, no task that is still queued is started.
C12_FailureAbortsSiblings ==
    [][Failed # {} =>
          \A n \in 1..Len(futures) :
              futures[n] = "queued" => futures'[n] = "queued"]_vars

\* flux / unc < 3 for a row as it was read, in exact arithmetic
SnrBelow3(r) ==
    /\ r.flux_raw[1] = "num" /\ r.unc_raw[1] = "num" /\ r.unc_raw[2] # 0
    /\ IF r.unc_raw[2] > 0 THEN r.flux_raw[2] < 3 * r.unc_raw[2]
       ELSE r.flux_raw[2] > 3 * r.unc_raw[2]

\* C13: in every light curve that fetch_lightcurve returns, mag and
\* magerr are null in each row whose flux / uncertainty is below 3, whose
\* uncertainty is 0, or whose flux is NaN or "null" - whichever of the
\* three holds, alone or together.
C13_MasksNullTheRow ==
    lc_pc = "done" =>
        \A n \in 1..Len(lc_rows) :
            (\/ SnrBelow3(lc_rows[n])
             \/ lc_rows[n].unc_raw = Num(0)
             \/ lc_rows[n].flux_raw \in {NaN, Null})
            => lc_rows[n].mag = NoneCell /\ lc_rows[n].magerr = NoneCell

C13_Witness ==
    /\ lc_pc = "done" /\ Len(lc_rows) = 2
    /\ lc_rows[1].flux_raw = Num(10) /\ lc_rows[1].unc_raw = Num(0)
    /\ lc_rows[1].mag = NoneCell /\ lc_rows[1].magerr = NoneCell
    /\ lc_rows[2].flux_raw = Num(100) /\ lc_rows[2].unc_raw = Num(10)
    /\ lc_rows[2].mag # NoneCell /\ lc_rows[2].magerr # NoneCell

\* C14: when the poll loop is left towards classification, every position
\* of ra, dec has at least one row with its ra and its dec in the filtered
\* status table.
C14_NoPendingPosition ==
    pc = "classify" =>
        \A n \in 1..Len(ra) :
            \E m \in 1..Len(df_result) :
                df_result[m].ra = ra[n] /\ df_result[m].dec = dec[n]

\* C15: a status query that answers with a table reconciles it against the
\* ra and dec that retrieve was called with: the step leaves both as they
\* were.
C15_ReconcilesAgainstArguments ==
    [][(pc = "query" /\ pc' \in {"sleep", "classify"}) =>
           (ra' = ra /\ dec' = dec)]_vars

\* C16: no fetch task is submitted for a row of the status table whose
\* light-curve file reference is null.
C16_NoFetchWithoutReference ==
    \A n \in 1..Len(futures) : SubmittedRows(df_result)[n].lightcurve # None

\* the poll loop has been left with a table that reconciles as complete
ReconciledComplete ==
    /\ df_result # None
    /\ ~KeepPolling(Len(df_result), Len(ra))

\* C17: a status query is answered before anything else happens and is
\* never followed directly by another one: a query is made only out of a
\* backoff, and a backoff only after a query; tasks are dispatched only out
\* of the classification of a table that was answered with 200 and
\* reconciled as complete, and a task starts only after the dispatch; once
\* tasks are dispatched no query and no backoff follows.
C17_SequentialPolling ==
    /\ [][/\ pc' = "query" => pc = "sleep"
          /\ pc' = "sleep" => pc = "query"
          /\ pc = "sleep" => pc' = "query" /\ n_retry' = n_retry + 1
          /\ pc' = "classify" => pc = "query" /\ ReconciledComplete'
          /\ (futures = <<>> /\ futures' # <<>>) =>
                 /\ pc = "classify" /\ ReconciledComplete
                 /\ \A n \in 1..Len(futures') : futures'[n] = "queued"
          /\ futures # <<>> => pc' \notin {"query", "sleep", "classify"}
         ]_vars
    /\ [](futures # <<>> => /\ pc \in {"collect", "shutdown", "fatal", "done"}
                            /\ ReconciledComplete)

C17_Witness ==
    /\ pc = "collect" /\ Len(ra) = 2 /\ Len(futures) = 2
    /\ futures[1] = "ok" /\ futures[2] = "running"
    /\ ReconciledComplete

\* C18: results changes only by the step that takes the next future's
\* result, and that step inserts a key that results does not hold yet.
C18_WriteOnce ==
    [][/\ results' # results => pc = "collect" /\ next' = next + 1
       /\ next' = next + 1 =>
              ~HasKey(results, Key(CollectedRows(df_result)[next]))]_vars

====
